---- MODULE Spec2Model ----
(***************************************************************************)
(* Model of tableqa.agent.Agent: the orchestrator that turns a question    *)
(* into a SQL query (get_query) and runs it (query_db).  The collaborators *)
(* Nlp (table selector + query synthesizer), Database (execution gateway)  *)
(* and Chart (presentation layer) are modelled from the specification.     *)
(***************************************************************************)
EXTENDS Integers, Sequences, FiniteSets, TLC

\* ------------------------------------------------------------------ bounds
MaxTables == 2      \* most tables in a data directory
MaxQLen == 2        \* most tokens in a question

\* --------------------------------------------------------------- constants
W_table == 2        \* weight of a table-name match
W_column == 1       \* weight of a column-name match

\* ------------------------------------------------------------------ tokens
\* A token is a sequence of characters (characters are small naturals).
KW_SUM == <<3>>
KW_AVG == <<4>>
Vocab == { <<1>>, KW_SUM, KW_AVG }

RECURSIVE SeqsUpTo(_, _)
SeqsUpTo(S, n) ==
    IF n = 0 THEN { <<>> }
    ELSE LET P == SeqsUpTo(S, n - 1)
         IN P \cup { Append(p, x) : p \in { r \in P : Len(r) = n - 1 }, x \in S }

Questions == SeqsUpTo(Vocab, MaxQLen)

\* ------------------------------------------------------------------ tables
Tbl(name, cols) == [name |-> name, cols |-> cols, none |-> FALSE]
NoneTbl == [name |-> <<>>, cols |-> <<>>, none |-> TRUE]

TablePool == { Tbl(<<1, 2>>, << <<1>> >>),
               Tbl(<<2, 1>>, << <<1>>, KW_SUM >>),
               Tbl(<<1>>, << KW_SUM >>) }

\* an in-memory table (DataFrame) carries no table name
Frames == { Tbl(<<>>, << <<1>>, KW_SUM >>), Tbl(<<>>, << <<1, 2>> >>) }

Range(s) == { s[i] : i \in 1..Len(s) }

Directories == { d \in SeqsUpTo(TablePool, MaxTables) : Cardinality(Range(d)) = Len(d) }

DataSources == { [kind |-> "dir", tables |-> d] : d \in Directories }
               \cup { [kind |-> "df", tables |-> <<f>>] : f \in Frames }

\* -------------------------------------------------------- python's None
NoneVal == <<>>

\* ---------------------------------------------- Nlp: the Table Selector
\* t occurs in n as a contiguous run of characters (t = n included)
IsSubstr(t, n) ==
    \E i \in 1..(Len(n) - Len(t) + 1) : SubSeq(n, i, i + Len(t) - 1) = t

\* Match Score of one table for a tokenized question
MatchScore(q, tbl) ==
    W_table * Cardinality({ i \in 1..Len(q) : IsSubstr(q[i], tbl.name) })
    + W_column * Cardinality({ i \in 1..Len(q) : q[i] \in Range(tbl.cols) })

\* scan the tables in declaration order, keeping the best seen so far;
\* a later table replaces it only with a strictly higher score
RECURSIVE ScanTables(_, _, _, _, _)
ScanTables(tables, q, i, best, bestScore) ==
    IF i > Len(tables) THEN best
    ELSE LET s == MatchScore(q, tables[i])
         IN IF s > bestScore
            THEN ScanTables(tables, q, i + 1, tables[i], s)
            ELSE ScanTables(tables, q, i + 1, best, bestScore)

\* Nlp.csv_select: the selected table, or None when nothing scores
csv_select(tables, q) == ScanTables(tables, q, 1, NoneTbl, 0)

\* -------------------------------------------- Nlp: the Query Synthesizer
Kw(w) == [kw |-> w, id |-> <<>>]
Id(t) == [kw |-> "", id |-> t]

RECURSIVE Idents(_)
Idents(cols) == IF cols = <<>> THEN <<>> ELSE <<Id(Head(cols))>> \o Idents(Tail(cols))

\* stage 1: the table's columns the question names, in schema order
ResolveColumns(df, q) ==
    LET named(c) == c \in Range(q) IN SelectSeq(df.cols, named)

\* stage 2: the aggregation functions the question asks for
Aggregations(q) ==
    (IF KW_SUM \in Range(q) THEN {"SUM"} ELSE {})
    \cup (IF KW_AVG \in Range(q) THEN {"AVG"} ELSE {})

\* stages 4 and 5: SELECT [DISTINCT] list FROM table [GROUP BY list]
Render(df, cols, agg, distinct) ==
    LET head == <<Kw("SELECT")>> \o (IF distinct THEN <<Kw("DISTINCT")>> ELSE <<>>)
        from == <<Kw("FROM"), Id(df.name)>>
    IN IF agg = "" \/ cols = <<>>
       THEN head \o (IF cols = <<>> THEN <<Kw("*")>> ELSE Idents(cols)) \o from
       ELSE LET group == Tail(cols)
            IN head \o Idents(group) \o <<Kw(agg), Id(Head(cols))>> \o from
               \o (IF group = <<>> THEN <<>> ELSE <<Kw("GROUP BY")>> \o Idents(group))

\* Nlp.get_sql_query: the rendered query, or the synthesis failure
get_sql_query(df, q, distinct) ==
    LET cols == ResolveColumns(df, q)
        aggs == Aggregations(q)
    IN IF Cardinality(aggs) > 1 /\ cols # <<>>
       THEN [err |-> "AmbiguousQueryError", sql |-> NoneVal]
       ELSE [err |-> "",
             sql |-> Render(df, cols, IF aggs = {} THEN "" ELSE CHOOSE a \in aggs : TRUE,
                            distinct)]

\* ------------------------------------------------------------ the Agent
Levels == {"DEBUG", "INFO", "WARNING"}
InitLevels == {"DEBUG", "WARNING"}
NoChart == "None"
Charts == {NoChart, "bar"}
Sizes == { <<10, 10>>, <<4, 3>> }
Answers == { << <<7>> >>, << <<7>>, <<8>> >> }

\* what a collaborator call does: the gateway answers or fails, the chart
\* is drawn or fails
GatewayOutcomes == { [ok |-> TRUE, answer |-> a] : a \in Answers }
                   \cup { [ok |-> FALSE, answer |-> NoneVal] }
ChartOutcomes == {"drawn", "ChartError"}

\* the chart arguments of a call with what the chart does; without a chart
\* kind no chart is drawn, so nothing can fail
Presentations == { p \in [chart : Charts, size : Sizes, ch : ChartOutcomes] :
                     p.chart = NoChart => p.ch = "drawn" }

\* one call made to a collaborator, as recorded in the call's transcript
Ev(op, tbl, sql, distinct) == [op |-> op, tbl |-> tbl, sql |-> sql, distinct |-> distinct]

\* Agent.__init__: the configuration fields of a constructed agent
Agent(data_dir, db_type, drop_db, aws_db) ==
    [data_dir |-> data_dir, schema_dir |-> NoneVal, db_type |-> db_type,
     username |-> "", password |-> "", database |-> "db", host |-> "localhost",
     port |-> NoneVal, drop_db |-> drop_db, aws_db |-> aws_db, aws_s3 |-> FALSE,
     access_key_id |-> "", secret_access_key |-> ""]

Agents == { Agent(d, "sqlite", drop, aws) :
              d \in DataSources, drop \in {TRUE}, aws \in BOOLEAN }

\* variant of select_df: the directory's first table is taken without
\* asking the Table Selector
select_df_first(self, question) ==
    IF self.data_dir.kind = "df" THEN self.data_dir.tables[1]
    ELSE IF self.data_dir.tables = <<>> THEN NoneTbl
    ELSE self.data_dir.tables[1]

\* variant of select_df: the Table Selector is asked for every data source
select_df_always(self, question) ==
    csv_select(self.data_dir.tables, question)

\* Agent.get_query, the table it works on: the in-memory table itself, or
\* whatever the Table Selector picks among the directory's tables
select_df(self, question) ==
    IF self.data_dir.kind = "df" THEN self.data_dir.tables[1]
    ELSE csv_select(self.data_dir.tables, question)

\* the Table Selector call get_query makes, if any
select_events(self, df) ==
    IF self.data_dir.kind = "df" THEN <<>>
    ELSE <<Ev("csv_select", df, NoneVal, FALSE)>>

\* variant of no_table: the None table is handed on to the synthesizer,
\* which fails on it
no_table_synth(lvl, df, sel) ==
    [outcome |-> "raised", ret |-> NoneVal, err |-> "AttributeError", df |-> df,
     level |-> lvl,
     events |-> sel \o <<Ev("print", NoneTbl, NoneVal, FALSE),
                         Ev("get_sql_query", df, NoneVal, FALSE)>>]

\* variant of no_table: the root logger level is set before the branch
no_table_setlevel(lvl, df, sel) ==
    [outcome |-> "returned", ret |-> NoneVal, err |-> "", df |-> df,
     level |-> "WARNING",
     events |-> sel \o <<Ev("print", NoneTbl, NoneVal, FALSE)>>]

\* Agent.get_query when df is None: print the message, fall off the end
no_table(lvl, df, sel) ==
    [outcome |-> "returned", ret |-> NoneVal, err |-> "", df |-> df,
     level |-> lvl,
     events |-> sel \o <<Ev("print", NoneTbl, NoneVal, FALSE)>>]

\* variant of verbose_branch: the query is logged but not returned
verbose_branch_noreturn(lvl, df, question, distinct, sel) ==
    LET r == get_sql_query(df, question, distinct)
    IN [outcome |-> IF r.err = "" THEN "returned" ELSE "raised",
        ret |-> NoneVal, err |-> r.err, df |-> df,
        level |-> "INFO",
        events |-> sel \o <<Ev("get_sql_query", df, NoneVal, distinct)>> \o
                   (IF r.err = "" THEN <<Ev("logger.info", NoneTbl, r.sql, FALSE)>>
                    ELSE <<>>)]

\* Agent.get_query, the verbose branch: root logger to INFO, synthesize,
\* log the query, return it
verbose_branch(lvl, df, question, distinct, sel) ==
    LET r == get_sql_query(df, question, distinct)
    IN [outcome |-> IF r.err = "" THEN "returned" ELSE "raised",
        ret |-> r.sql, err |-> r.err, df |-> df,
        level |-> "INFO",
        events |-> sel \o <<Ev("get_sql_query", df, NoneVal, distinct)>> \o
                   (IF r.err = "" THEN <<Ev("logger.info", NoneTbl, r.sql, FALSE)>>
                    ELSE <<>>)]

\* variant of quiet_branch: distinct is not passed on, the synthesizer's
\* default (False) applies
quiet_branch_nodistinct(lvl, df, question, distinct, sel) ==
    LET r == get_sql_query(df, question, FALSE)
    IN [outcome |-> IF r.err = "" THEN "returned" ELSE "raised",
        ret |-> r.sql, err |-> r.err, df |-> df,
        level |-> "WARNING",
        events |-> sel \o <<Ev("get_sql_query", df, NoneVal, FALSE)>>]

\* Agent.get_query, the other branch: root logger to WARNING, synthesize,
\* return the query
quiet_branch(lvl, df, question, distinct, sel) ==
    LET r == get_sql_query(df, question, distinct)
    IN [outcome |-> IF r.err = "" THEN "returned" ELSE "raised",
        ret |-> r.sql, err |-> r.err, df |-> df,
        level |-> "WARNING",
        events |-> sel \o <<Ev("get_sql_query", df, NoneVal, distinct)>>]

\* Agent.get_query, run to completion from root logger level lvl:
\*   outcome "returned" with ret (a rendered query or None), or "raised"
\*   with err; df is the table it worked on, level the root logger level
\*   it leaves, events the collaborator calls it made, in order.
get_query(self, lvl, question, verbose, distinct) ==
    LET df == select_df(self, question)
        sel == select_events(self, df)
    IN IF df.none THEN no_table(lvl, df, sel)
       ELSE IF verbose THEN verbose_branch(lvl, df, question, distinct, sel)
       ELSE quiet_branch(lvl, df, question, distinct, sel)

\* variant of backend: aws_db is ignored
backend_local(self) == "fetch_data"

\* Agent.query_db, the Database method it looks up
backend(self) == IF self.aws_db THEN "fetch_data_aws" ELSE "fetch_data"

\* variant of query_db: the Chart object is returned when a chart is drawn
query_db_chartret(self, lvl, question, verbose, chart, size, distinct, gw, ch) ==
    LET g == get_query(self, lvl, question, verbose, distinct)
        query == g.ret
        run == g.events \o <<Ev(backend(self), NoneTbl, query, FALSE)>>
    IN IF g.outcome = "raised" THEN g
       ELSE IF ~gw.ok
       THEN [g EXCEPT !.outcome = "raised", !.ret = NoneVal, !.err = "GatewayError",
                      !.events = run]
       ELSE IF chart = NoChart
       THEN [g EXCEPT !.ret = gw.answer, !.events = run]
       ELSE IF ch # "drawn"
       THEN [g EXCEPT !.outcome = "raised", !.ret = NoneVal, !.err = ch,
                      !.events = run \o <<Ev("Chart", NoneTbl, query, FALSE)>>]
       ELSE [g EXCEPT !.ret = NoneVal,
                      !.events = run \o <<Ev("Chart", NoneTbl, query, FALSE)>>]

\* Agent.query_db, run to completion; gw and ch are what the gateway and
\* the chart do if they are called.  A failure of either is an exception
\* that nothing in query_db catches.
query_db(self, lvl, question, verbose, chart, size, distinct, gw, ch) ==
    LET g == get_query(self, lvl, question, verbose, distinct)
        query == g.ret
        run == g.events \o <<Ev(backend(self), NoneTbl, query, FALSE)>>
    IN IF g.outcome = "raised" THEN g
       ELSE IF ~gw.ok
       THEN [g EXCEPT !.outcome = "raised", !.ret = NoneVal, !.err = "GatewayError",
                      !.events = run]
       ELSE IF chart = NoChart
       THEN [g EXCEPT !.ret = gw.answer, !.events = run]
       ELSE IF ch # "drawn"
       THEN [g EXCEPT !.outcome = "raised", !.ret = NoneVal, !.err = ch,
                      !.events = run \o <<Ev("Chart", NoneTbl, query, FALSE)>>]
       ELSE [g EXCEPT !.ret = gw.answer,
                      !.events = run \o <<Ev("Chart", NoneTbl, query, FALSE)>>]

\* ------------------------------------------------------------- the state
VARIABLES
    agent,      \* the Agent's configuration fields
    rootLevel,  \* level of the process-wide root logger
    pc,         \* "idle", or "done" while a finished call's outcome is held
    last,       \* the finished call: its arguments, outcome and transcript
    lastFound   \* "none", or how the latest call that found a table was made

vars == <<agent, rootLevel, pc, last, lastFound>>

NoCall == [op |-> "", question |-> <<>>, verbose |-> FALSE, chart |-> NoChart,
           size |-> <<10, 10>>, distinct |-> FALSE,
           gw |-> [ok |-> FALSE, answer |-> NoneVal], ch |-> "drawn",
           outcome |-> "", ret |-> NoneVal, err |-> "", df |-> NoneTbl,
           events |-> <<>>]

Finished(op, question, verbose, chart, size, distinct, gw, ch, r) ==
    [op |-> op, question |-> question, verbose |-> verbose, chart |-> chart,
     size |-> size, distinct |-> distinct, gw |-> gw, ch |-> ch,
     outcome |-> r.outcome, ret |-> r.ret, err |-> r.err, df |-> r.df,
     events |-> r.events]

Init ==
    /\ agent \in Agents
    /\ rootLevel \in InitLevels
    /\ pc = "idle"
    /\ last = NoCall
    /\ lastFound = "none"

\* a caller runs get_query(question, verbose, distinct)
GetQuery ==
    /\ pc = "idle"
    /\ \E question \in Questions, verbose \in BOOLEAN, distinct \in BOOLEAN :
         LET r == get_query(agent, rootLevel, question, verbose, distinct)
         IN /\ rootLevel' = r.level
            /\ last' = Finished("get_query", question, verbose, NoChart, <<10, 10>>,
                                distinct, NoCall.gw, NoCall.ch, r)
            /\ lastFound' = IF r.df.none THEN lastFound
                            ELSE IF verbose THEN "verbose" ELSE "quiet"
    /\ pc' = "done"
    /\ UNCHANGED agent

\* a caller runs query_db(question, verbose, chart, size, distinct)
QueryDb ==
    /\ pc = "idle"
    /\ \E question \in Questions, verbose \in BOOLEAN, distinct \in BOOLEAN,
          p \in Presentations, gw \in GatewayOutcomes :
         LET r == query_db(agent, rootLevel, question, verbose, p.chart, p.size,
                           distinct, gw, p.ch)
         IN /\ rootLevel' = r.level
            /\ last' = Finished("query_db", question, verbose, p.chart, p.size,
                                distinct, gw, p.ch, r)
            /\ lastFound' = IF r.df.none THEN lastFound
                            ELSE IF verbose THEN "verbose" ELSE "quiet"
    /\ pc' = "done"
    /\ UNCHANGED agent

\* the caller takes the outcome; the agent keeps nothing of the call
Collect ==
    /\ pc = "done"
    /\ pc' = "idle"
    /\ last' = NoCall
    /\ UNCHANGED <<agent, rootLevel, lastFound>>

Next == GetQuery \/ QueryDb \/ Collect

Spec == Init /\ [][Next]_vars

\* ------------------------------------------------------------ properties
EvCount(ops) == Cardinality({ i \in 1..Len(last.events) : last.events[i].op \in ops })
Gateway == {"fetch_data", "fetch_data_aws"}
IsDir == agent.data_dir.kind = "dir"

\* C1: on an agent over a directory, when the Table Selector returns None
\* for the question, get_query prints the not-understood message, returns
\* None, raises nothing and never calls the Query Synthesizer.
C1_NoTableReportAndStop ==
    (/\ pc = "done" /\ last.op = "get_query" /\ IsDir
     /\ csv_select(agent.data_dir.tables, last.question).none)
    => /\ last.outcome = "returned"
       /\ last.ret = NoneVal
       /\ last.err = ""
       /\ EvCount({"print"}) = 1
       /\ EvCount({"get_sql_query"}) = 0

C1_Witness ==
    /\ pc = "done" /\ last.op = "get_query" /\ IsDir
    /\ Len(agent.data_dir.tables) = 2 /\ last.question # <<>>
    /\ csv_select(agent.data_dir.tables, last.question).none
    /\ EvCount({"print"}) = 1

\* C2: what get_query gives back does not depend on verbose: the call made
\* with the other value of verbose ends the same way with the same value;
\* verbose decides only whether the rendered query is logged.
C2_VerboseDoesNotChangeResult ==
    (pc = "done" /\ last.op = "get_query")
    => LET o == get_query(agent, rootLevel, last.question, ~last.verbose, last.distinct)
       IN /\ o.outcome = last.outcome
          /\ o.ret = last.ret
          /\ o.err = last.err
          /\ EvCount({"logger.info"}) =
               (IF last.verbose /\ last.outcome = "returned" /\ ~last.df.none
                THEN 1 ELSE 0)

C2_Witness ==
    /\ pc = "done" /\ last.op = "get_query" /\ last.verbose
    /\ last.outcome = "returned" /\ last.ret # NoneVal
    /\ EvCount({"logger.info"}) = 1

\* C3: whenever query_db returns, it returns exactly the rows the
\* Execution Gateway answered, whatever chart and size are; drawing a
\* chart does not change the returned value.
C3_ReturnsGatewayRows ==
    (pc = "done" /\ last.op = "query_db" /\ last.outcome = "returned")
    => /\ last.gw.ok
       /\ last.ret = last.gw.answer

C3_Witness ==
    /\ pc = "done" /\ last.op = "query_db" /\ last.outcome = "returned"
    /\ last.chart # NoChart /\ last.size = <<4, 3>>
    /\ EvCount({"Chart"}) = 1
    /\ last.ret = << <<7>>, <<8>> >>

\* C4: a failure of the chart is isolated: whenever the Execution Gateway
\* was called and succeeded, query_db returns the gateway's rows and no
\* error reaches the caller.
C4_ChartFailureIsolated ==
    (pc = "done" /\ last.op = "query_db" /\ EvCount(Gateway) > 0 /\ last.gw.ok)
    => /\ last.outcome = "returned"
       /\ last.ret = last.gw.answer

\* C5: the distinct value handed to the Query Synthesizer is the caller's
\* distinct flag on every path (get_query verbose or not, query_db), and
\* for the question and table of the call the flag only adds or removes
\* the DISTINCT modifier of the rendered query.
NotDistinctKw(item) == item # Kw("DISTINCT")

C5_DistinctForwarded ==
    pc = "done"
    => /\ \A i \in 1..Len(last.events) :
             last.events[i].op = "get_sql_query"
             => last.events[i].distinct = last.distinct
       /\ (last.op = "get_query" /\ last.outcome = "returned" /\ ~last.df.none)
             => last.ret = get_sql_query(last.df, last.question, last.distinct).sql
       /\ ~last.df.none
             => LET r1 == get_sql_query(last.df, last.question, TRUE)
                    r0 == get_sql_query(last.df, last.question, FALSE)
                IN /\ r1.err = r0.err
                   /\ r1.err = ""
                        => /\ SelectSeq(r1.sql, NotDistinctKw) = r0.sql
                           /\ Len(r1.sql) = Len(r0.sql) + 1
                           /\ SelectSeq(r0.sql, NotDistinctKw) = r0.sql

C5_Witness ==
    /\ pc = "done" /\ last.op = "query_db" /\ last.distinct /\ ~last.verbose
    /\ last.outcome = "returned"
    /\ \E i \in 1..Len(last.events) :
          last.events[i].op = "get_sql_query" /\ last.events[i].distinct
    /\ \E i \in 1..Len(last.events) :
          last.events[i].op \in Gateway /\ Kw("DISTINCT") \in Range(last.events[i].sql)

\* the largest Match Score among the tables, 0 when there is none
MaxScore(tables, q) ==
    LET scores == { MatchScore(q, tables[i]) : i \in 1..Len(tables) } \cup {0}
    IN CHOOSE m \in scores : \A x \in scores : x <= m

\* df is the first-declared table with the largest score, None when that
\* score is zero
FirstMax(tables, q, df) ==
    LET m == MaxScore(tables, q)
    IN /\ df.none <=> m = 0
       /\ ~df.none
            => \E i \in 1..Len(tables) :
                  /\ tables[i] = df
                  /\ MatchScore(q, tables[i]) = m
                  /\ \A j \in 1..(i - 1) : MatchScore(q, tables[j]) < m

\* C6 as stated: for every question and schema snapshot the table
\* get_query uses is the first-declared table with the largest Match
\* Score, and it is None exactly when that score is zero.
C6_FirstMaxForEverySource ==
    pc = "done" => FirstMax(agent.data_dir.tables, last.question, last.df)

\* C6 as amended: when the data source is a directory, the table
\* get_query uses (and hands to the synthesizer) is the first-declared
\* table with the largest Match Score, None exactly when that score is
\* zero.
C6_FirstMaxForDirectory ==
    (pc = "done" /\ IsDir)
    => /\ FirstMax(agent.data_dir.tables, last.question, last.df)
       /\ \A i \in 1..Len(last.events) :
             last.events[i].op \in {"csv_select", "get_sql_query"}
             => last.events[i].tbl = last.df

C6_Witness ==
    /\ pc = "done" /\ IsDir /\ Len(agent.data_dir.tables) = 2
    /\ MatchScore(last.question, agent.data_dir.tables[1]) > 0
    /\ MatchScore(last.question, agent.data_dir.tables[1])
         = MatchScore(last.question, agent.data_dir.tables[2])
    /\ last.df = agent.data_dir.tables[1]
    /\ EvCount({"get_sql_query"}) = 1

\* C7: a query_db call calls the Execution Gateway at most once: once
\* get_query has produced its result exactly one backend operation is
\* called, the AWS one when aws_db is set and the local one otherwise; if
\* it fails, its failure is the call's outcome and no chart is drawn.
C7_OneGatewayCall ==
    (pc = "done" /\ last.op = "query_db")
    => /\ EvCount(Gateway) <= 1
       /\ EvCount(Gateway) = (IF last.err = "AmbiguousQueryError" THEN 0 ELSE 1)
       /\ EvCount({"fetch_data_aws"}) = (IF agent.aws_db THEN EvCount(Gateway) ELSE 0)
       /\ EvCount({"fetch_data"}) = (IF agent.aws_db THEN 0 ELSE EvCount(Gateway))
       /\ (EvCount(Gateway) = 1 /\ ~last.gw.ok)
            => /\ last.outcome = "raised"
               /\ last.err = "GatewayError"
               /\ EvCount({"Chart"}) = 0
               /\ last.events[Len(last.events)].op \in Gateway

C7_Witness ==
    /\ pc = "done" /\ last.op = "query_db" /\ agent.aws_db
    /\ ~last.gw.ok /\ last.chart # NoChart
    /\ last.outcome = "raised" /\ last.err = "GatewayError"
    /\ EvCount({"fetch_data_aws"}) = 1

\* C8: query_db calls the Execution Gateway only with a rendered query:
\* when get_query finds no table and returns None, neither the gateway
\* nor the chart is called.
C8_NoGatewayWithoutQuery ==
    (pc = "done" /\ last.op = "query_db")
    => /\ \A i \in 1..Len(last.events) :
             last.events[i].op \in Gateway => last.events[i].sql # NoneVal
       /\ last.df.none => EvCount(Gateway \cup {"Chart"}) = 0

\* C9: over an in-memory table get_query never asks the Table Selector
\* and never reports not-understood: it hands that table to the
\* synthesizer for every question and ends as the synthesizer does.
C9_FrameSkipsSelector ==
    (pc = "done" /\ ~IsDir)
    => /\ EvCount({"csv_select", "print"}) = 0
       /\ last.df = agent.data_dir.tables[1]
       /\ EvCount({"get_sql_query"}) = 1
       /\ \A i \in 1..Len(last.events) :
             last.events[i].op = "get_sql_query"
             => last.events[i].tbl = agent.data_dir.tables[1]
       /\ last.op = "get_query"
            => LET r == get_sql_query(agent.data_dir.tables[1], last.question,
                                      last.distinct)
               IN IF r.err = ""
                  THEN last.outcome = "returned" /\ last.ret = r.sql
                  ELSE last.outcome = "raised" /\ last.err = r.err

C9_Witness ==
    /\ pc = "done" /\ ~IsDir /\ last.op = "get_query"
    /\ MatchScore(last.question, agent.data_dir.tables[1]) = 0
    /\ last.outcome = "returned" /\ last.ret # NoneVal

\* C10: the root logger level is the one set by the latest call that
\* found a table (INFO if it was verbose, WARNING if not); a call that
\* finds no table leaves it as it was; no call changes a configuration
\* field of the Agent.
C10_LevelOfLastFound ==
    lastFound # "none"
    => rootLevel = (IF lastFound = "verbose" THEN "INFO" ELSE "WARNING")

C10_CallStep ==
    /\ agent' = agent
    /\ (pc = "idle" /\ pc' = "done")
         => rootLevel' = (IF last'.df.none THEN rootLevel
                          ELSE IF last'.verbose THEN "INFO" ELSE "WARNING")
    /\ pc = "done" => rootLevel' = rootLevel

C10_RootLoggerLevel == []C10_LevelOfLastFound /\ [][C10_CallStep]_vars

C10_Witness ==
    /\ pc = "done" /\ last.op = "query_db" /\ last.df.none
    /\ lastFound = "verbose" /\ rootLevel = "INFO"

====
